---- MODULE Spec2Model ----
(***************************************************************************)
(* Model of src/assignment2.js: the Body kinematics / collision test and   *)
(* the game-phase flags of the Assignment2 scene (start_game,              *)
(* capture_treasure, lose_game and the per-frame draw_room).               *)
(*                                                                         *)
(* Numbers.  JavaScript numbers are modelled as exact rationals.  A scalar *)
(* is a pair <<n, d>> (n/d, d > 0); a vector is [v |-> <<x,y,z>>, d |-> d] *)
(* (every component over the common denominator d); a 4x4 matrix is        *)
(* [m |-> <<row1,..,row4>>, d |-> d].  Vectors and matrices are kept in    *)
(* lowest terms so that equal values are equal records.                    *)
(***************************************************************************)
EXTENDS Integers, Sequences, FiniteSets, TLC

\* ------------------------------------------------------------------ bounds
\* Number of frames that run the playing branch of draw_room (each one pushes
\* six more bodies on this.guards, which the code never empties).
MaxFrames == 2

\* Number of calls of Body methods in a run of the Body specification.
MaxCalls == 5
\* Points given to the point tests have coordinates -MaxCoord/2 .. MaxCoord/2.
MaxCoord == 4

\* ------------------------------------------------------------- arithmetic
Abs(x) == IF x < 0 THEN -x ELSE x

\* Operators below bind their arguments with `CHOOSE r \in {e(x) : x \in {arg}}`
\* so that an argument is evaluated once, not once per use.

RECURSIVE GCD(_, _)
GCD(a0, b0) ==
    CHOOSE g \in {IF b = 0 THEN a ELSE GCD(b, a % b) : a \in {a0}, b \in {b0}} : TRUE

LCM(a, b) == (a \div GCD(a, b)) * b

RowGCD(r) == GCD(GCD(Abs(r[1]), Abs(r[2])), GCD(Abs(r[3]), Abs(r[4])))

MatGCD(m, d) ==
    GCD(GCD(GCD(RowGCD(m[1]), RowGCD(m[2])), GCD(RowGCD(m[3]), RowGCD(m[4]))), d)

\* A matrix in lowest terms.
Mat(m0, d0) ==
    CHOOSE r \in {[m |-> [i \in 1..4 |-> [j \in 1..4 |-> mg[1][i][j] \div mg[2]]],
                   d |-> mg[3] \div mg[2]] :
                  mg \in {<<m, MatGCD(m, d0), d0>> : m \in {m0}}} : TRUE

\* A 3-vector in lowest terms.
Vec(v0, d0) ==
    CHOOSE r \in {[v |-> [i \in 1..3 |-> vg[1][i] \div vg[2]], d |-> vg[3] \div vg[2]] :
                  vg \in {<<v, GCD(GCD(Abs(v[1]), Abs(v[2])), GCD(Abs(v[3]), d0)), d0>> :
                          v \in {v0}}} : TRUE

vec3(x, y, z) == Vec(<<x, y, z>>, 1)

\* The value of a field that was never assigned.
undefined == [m |-> <<>>, d |-> 0]

\* ------------------------------------------------- tiny-graphics matrices
Mat4_identity ==
    Mat(<<<<1, 0, 0, 0>>, <<0, 1, 0, 0>>, <<0, 0, 1, 0>>, <<0, 0, 0, 1>>>>, 1)

\* Mat4.translation(x, y, z), the arguments being scalars <<n, d>>.
Mat4_translation(x, y, z) ==
    LET L == LCM(LCM(x[2], y[2]), z[2])
    IN  Mat(<<<<L, 0, 0, x[1] * (L \div x[2])>>,
              <<0, L, 0, y[1] * (L \div y[2])>>,
              <<0, 0, L, z[1] * (L \div z[2])>>,
              <<0, 0, 0, L>>>>, L)

\* Mat4.scale(x, y, z), the arguments being scalars <<n, d>>.
Mat4_scale(x, y, z) ==
    LET L == LCM(LCM(x[2], y[2]), z[2])
    IN  Mat(<<<<x[1] * (L \div x[2]), 0, 0, 0>>,
              <<0, y[1] * (L \div y[2]), 0, 0>>,
              <<0, 0, z[1] * (L \div z[2]), 0>>,
              <<0, 0, 0, L>>>>, L)

\* sin and cos of q quarter turns (q * PI / 2).
SinQ(q) == CASE q % 4 = 0 -> 0 [] q % 4 = 1 -> 1 [] q % 4 = 2 -> 0 [] OTHER -> -1
CosQ(q) == CASE q % 4 = 0 -> 1 [] q % 4 = 1 -> 0 [] q % 4 = 2 -> -1 [] OTHER -> 0

\* Mat4.rotation(angle, x, y, z) for an angle of q quarter turns about the
\* unit axis (x, y, z) with integer components.
Mat4_rotation(q, x, y, z) ==
    LET c == CosQ(q)
        s == SinQ(q)
        omc == 1 - c
    IN  Mat(<<<<x * x * omc + c,     x * y * omc - z * s, x * z * omc + y * s, 0>>,
              <<x * y * omc + z * s, y * y * omc + c,     y * z * omc - x * s, 0>>,
              <<x * z * omc - y * s, y * z * omc + x * s, z * z * omc + c,     0>>,
              <<0, 0, 0, 1>>>>, 1)

\* Matrix.times(b) for a matrix argument: the matrix product.
times(A0, B0) ==
    CHOOSE r \in {Mat([i \in 1..4 |-> [j \in 1..4 |->
                          A.m[i][1] * B.m[1][j] + A.m[i][2] * B.m[2][j]
                        + A.m[i][3] * B.m[3][j] + A.m[i][4] * B.m[4][j]]],
                      A.d * B.d) : A \in {A0}, B \in {B0}} : TRUE

\* Matrix.times(p.to4(1)).to3(): the image of the point p, w dropped.
times_point(A0, p0) ==
    CHOOSE r \in {Vec([i \in 1..3 |->
                          A.m[i][1] * p.v[1] + A.m[i][2] * p.v[2]
                        + A.m[i][3] * p.v[3] + A.m[i][4] * p.d],
                      A.d * p.d) : A \in {A0}, p \in {p0}} : TRUE

Next3(i) == (i % 3) + 1

\* Signed cofactor (i, j) of the upper-left 3x3 block of A.m.
Cofactor(A, i, j) ==
      A.m[Next3(i)][Next3(j)] * A.m[Next3(Next3(i))][Next3(Next3(j))]
    - A.m[Next3(i)][Next3(Next3(j))] * A.m[Next3(Next3(i))][Next3(j)]

Det3(A) ==
    A.m[1][1] * Cofactor(A, 1, 1) + A.m[1][2] * Cofactor(A, 1, 2)
  + A.m[1][3] * Cofactor(A, 1, 3)

\* Mat4.inverse(A) for an affine matrix A (last row 0 0 0 1) whose linear
\* part is invertible.
Adjugate(A) == [i \in 1..3 |-> [j \in 1..3 |-> Cofactor(A, j, i)]]

Mat4_inverse(A0) ==
    CHOOSE r \in
        {LET sg == IF det < 0 THEN -1 ELSE 1
         IN  Mat([i \in 1..4 |-> [j \in 1..4 |->
                     IF i = 4 THEN (IF j = 4 THEN sg * det ELSE 0)
                     ELSE IF j = 4
                          THEN -sg * (adj[i][1] * A.m[1][4] + adj[i][2] * A.m[2][4]
                                      + adj[i][3] * A.m[3][4])
                          ELSE sg * A.d * adj[i][j]]],
                 sg * det) :
         A \in {A0}, det \in {Det3(A0)}, adj \in {Adjugate(A0)}} : TRUE

\* ------------------------------------------------------------------- Body
undefined_vec == [v |-> <<>>, d |-> 0]

\* new Body(shape, material, size): only shape and size are set; id stands for
\* the identity of the object (what `this == b` compares).
Body(id, shape, size) ==
    [id |-> id, shape |-> shape, size |-> size,
     center |-> undefined_vec, rotation |-> undefined,
     previous |-> [center |-> undefined_vec, rotation |-> undefined],
     drawn_location |-> undefined,
     linear_velocity |-> undefined_vec, angular_velocity |-> 0,
     spin_axis |-> undefined_vec,
     inverse |-> undefined]

\* The translation column of a matrix: location_matrix.times(vec4(0,0,0,1)).to3()
translation_of(M0) ==
    CHOOSE r \in {Vec(<<M.m[1][4], M.m[2][4], M.m[3][4]>>, M.d) : M \in {M0}} : TRUE

\* emplace() that saves the state the body had before the call as previous.
emplace_keeps_previous(b, location_matrix0, linear_velocity, angular_velocity, spin_axis) ==
    CHOOSE r \in
        {[b EXCEPT !.center = center,
                   !.rotation = times(Mat4_translation(<<-center.v[1], center.d>>,
                                                       <<-center.v[2], center.d>>,
                                                       <<-center.v[3], center.d>>),
                                      location_matrix),
                   !.previous = [center |-> b.center, rotation |-> b.rotation],
                   !.drawn_location = location_matrix,
                   !.linear_velocity = linear_velocity,
                   !.angular_velocity = angular_velocity,
                   !.spin_axis = spin_axis] :
         location_matrix \in {location_matrix0},
         center \in {translation_of(location_matrix0)}} : TRUE

\* Body.emplace(location_matrix, linear_velocity, angular_velocity, spin_axis);
\* angular_velocity in quarter turns per unit of time, spin_axis a unit
\* vector with integer components.
emplace(b, location_matrix0, linear_velocity, angular_velocity, spin_axis) ==
    CHOOSE r \in
        {LET rotation == times(Mat4_translation(<<-center.v[1], center.d>>,
                                                <<-center.v[2], center.d>>,
                                                <<-center.v[3], center.d>>),
                               location_matrix)
         IN  [b EXCEPT !.center = center,
                       !.rotation = rotation,
                       !.previous = [center |-> center, rotation |-> rotation],
                       !.drawn_location = location_matrix,
                       !.linear_velocity = linear_velocity,
                       !.angular_velocity = angular_velocity,
                       !.spin_axis = spin_axis] :
         location_matrix \in {location_matrix0},
         center \in {translation_of(location_matrix0)}} : TRUE

\* Vector.plus(b)
vec_plus(u0, v0) ==
    CHOOSE r \in {Vec([i \in 1..3 |-> u.v[i] * v.d + v.v[i] * u.d], u.d * v.d) :
                  u \in {u0}, v \in {v0}} : TRUE

\* Vector.times(s) for a scalar s = <<n, d>>
vec_times(v0, s) ==
    CHOOSE r \in {Vec([i \in 1..3 |-> v.v[i] * s[1]], v.d * s[2]) : v \in {v0}} : TRUE

\* Vector.mix(b, s): this.times(1 - s).plus(b.times(s))
vec_mix(u, v, s) == vec_plus(vec_times(u, <<s[2] - s[1], s[2]>>), vec_times(v, s))

\* A body on which emplace() was never called: center, rotation, previous,
\* drawn_location, the velocities and spin_axis are undefined.
never_placed(b) == b.center = undefined_vec

\* advance() raises a TypeError when it reads this.center.copy() of a body
\* whose center is undefined.
advance_throws(b) == b.center = undefined_vec

\* advance() that saves previous after the update, or what advance() without
\* the copies does to the rotation, which pre_multiply changes in place.
advance_saves_after(b0, time_amount) ==
    CHOOSE r \in
        {[b EXCEPT !.previous = [center |-> center, rotation |-> rotation],
                   !.center = center,
                   !.rotation = rotation] :
         b \in {b0},
         center \in {vec_plus(b0.center, vec_times(b0.linear_velocity, <<time_amount, 1>>))},
         rotation \in {times(Mat4_rotation(time_amount * b0.angular_velocity,
                                           b0.spin_axis.v[1], b0.spin_axis.v[2],
                                           b0.spin_axis.v[3]),
                             b0.rotation)}} : TRUE

\* Body.advance(time_amount), time_amount a natural number, on a placed body.
advance(b0, time_amount) ==
    CHOOSE r \in
        {[b EXCEPT !.previous = [center |-> b.center, rotation |-> b.rotation],
                   !.center = center,
                   !.rotation = rotation] :
         b \in {b0},
         center \in {vec_plus(b0.center, vec_times(b0.linear_velocity, <<time_amount, 1>>))},
         rotation \in {times(Mat4_rotation(time_amount * b0.angular_velocity,
                                           b0.spin_axis.v[1], b0.spin_axis.v[2],
                                           b0.spin_axis.v[3]),
                             b0.rotation)}} : TRUE

\* Body.blend_rotation(alpha): every row of previous.rotation mixed with the
\* row of rotation, alpha = <<n, d>>.
blend_rotation(b, alpha) ==
    CHOOSE r \in
        {Mat([i \in 1..4 |-> [j \in 1..4 |->
                 (alpha[2] - alpha[1]) * P.m[i][j] * R.d + alpha[1] * R.m[i][j] * P.d]],
             alpha[2] * P.d * R.d) :
         P \in {b.previous.rotation}, R \in {b.rotation}} : TRUE

\* blend_state() raises a TypeError when it reads this.previous.center of a
\* body whose previous is undefined.
blend_state_throws(b) == b.previous.center = undefined_vec

\* blend_state() that mixes from the current state to the previous one.
blend_state_reversed(b0, alpha) ==
    CHOOSE r \in
        {[b EXCEPT !.drawn_location =
              times(times(Mat4_translation(<<c.v[1], c.d>>, <<c.v[2], c.d>>, <<c.v[3], c.d>>),
                          blend_rotation(b, alpha)),
                    Mat4_scale(<<b.size.v[1], b.size.d>>, <<b.size.v[2], b.size.d>>,
                               <<b.size.v[3], b.size.d>>))] :
         b \in {b0}, c \in {vec_mix(b0.center, b0.previous.center, alpha)}} : TRUE

\* Body.blend_state(alpha) on a placed body.
blend_state(b0, alpha) ==
    CHOOSE r \in
        {[b EXCEPT !.drawn_location =
              times(times(Mat4_translation(<<c.v[1], c.d>>, <<c.v[2], c.d>>, <<c.v[3], c.d>>),
                          blend_rotation(b, alpha)),
                    Mat4_scale(<<b.size.v[1], b.size.d>>, <<b.size.v[2], b.size.d>>,
                               <<b.size.v[3], b.size.d>>))] :
         b \in {b0}, c \in {vec_mix(b0.previous.center, b0.center, alpha)}} : TRUE

\* Body.intersect_sphere(p, margin): p.dot(p) < 1 + margin
\* intersect_sphere() with <= for <.
intersect_sphere_inclusive(p0, margin) ==
    \E p \in {p0} :
        (p.v[1] * p.v[1] + p.v[2] * p.v[2] + p.v[3] * p.v[3]) * margin[2]
            <= (margin[2] + margin[1]) * p.d * p.d

intersect_sphere(p0, margin) ==
    \E p \in {p0} :
        (p.v[1] * p.v[1] + p.v[2] * p.v[2] + p.v[3] * p.v[3]) * margin[2]
            < (margin[2] + margin[1]) * p.d * p.d

\* Body.intersect_cube(p, margin): every coordinate within [-1 - margin, 1 + margin]
intersect_cube(p0, margin) ==
    \E p \in {p0} :
        \A i \in 1..3 :
            /\ p.v[i] * margin[2] >= -(margin[2] + margin[1]) * p.d
            /\ p.v[i] * margin[2] <= (margin[2] + margin[1]) * p.d

intersect_test(name, p, margin) ==
    IF name = "intersect_sphere" THEN intersect_sphere(p, margin)
    ELSE intersect_cube(p, margin)

\* Sample points of the sphere profiles: points of the unit sphere.
SpherePoints ==
    {vec3(1, 0, 0), vec3(-1, 0, 0), vec3(0, 1, 0), vec3(0, -1, 0),
     vec3(0, 0, 1), vec3(0, 0, -1)}

\* Sample points of the cube profile: the corners of the unit cube.
CubePoints == {vec3(x, y, z) : x \in {-1, 1}, y \in {-1, 1}, z \in {-1, 1}}

\* this.colliders (JavaScript index i is colliders[i + 1])
colliders ==
    <<[intersect_test |-> "intersect_sphere", points |-> SpherePoints, leeway |-> <<1, 2>>],
      [intersect_test |-> "intersect_sphere", points |-> SpherePoints, leeway |-> <<3, 10>>],
      [intersect_test |-> "intersect_cube", points |-> CubePoints, leeway |-> <<1, 10>>]>>

collider_selection == 0

\* check_if_colliding that excludes a body of equal placement, not the same
\* object.
check_if_colliding_by_value(a, b, collider) ==
    IF a.drawn_location = b.drawn_location THEN FALSE
    ELSE \E T \in {times(a.inverse, b.drawn_location)} :
             \E p \in collider.points :
                 intersect_test(collider.intersect_test, times_point(T, p), collider.leeway)

\* check_if_colliding that leaves b in world coordinates: T = b.drawn_location.
check_if_colliding_no_inverse(a, b, collider) ==
    IF a.id = b.id THEN FALSE
    ELSE \E T \in {b.drawn_location} :
             \E p \in collider.points :
                 intersect_test(collider.intersect_test, times_point(T, p), collider.leeway)

\* check_if_colliding with the roles swapped: the points of this body taken
\* to the frame of b.
check_if_colliding_roles_swapped(a, b, collider) ==
    IF a.id = b.id THEN FALSE
    ELSE \E T \in {times(Mat4_inverse(b.drawn_location), a.drawn_location)} :
             \E p \in collider.points :
                 intersect_test(collider.intersect_test, times_point(T, p), collider.leeway)

\* check_if_colliding with `every` in place of `some`.
check_if_colliding_every(a, b, collider) ==
    IF a.id = b.id THEN FALSE
    ELSE \E T \in {times(a.inverse, b.drawn_location)} :
             \A p \in collider.points :
                 intersect_test(collider.intersect_test, times_point(T, p), collider.leeway)

\* check_if_colliding() raises a TypeError when it reads this.inverse.times of
\* a body without inverse, or the rows of an undefined b.drawn_location; the
\* test of identity comes before both.
check_if_colliding_throws(a, b) ==
    a.id # b.id /\ (a.inverse = undefined \/ b.drawn_location = undefined)

\* a.check_if_colliding(b, collider), for a body a whose inverse is set.
check_if_colliding(a, b, collider) ==
    IF a.id = b.id THEN FALSE
    ELSE \E T \in {times(a.inverse, b.drawn_location)} :
             \E p \in collider.points :
                 intersect_test(collider.intersect_test, times_point(T, p), collider.leeway)

\* ------------------------------------------------------------------ scene
VARIABLES
    start, begin, lose, win, playing,   \* the screen booleans of Base_Scene
    treasure_touch, guard_touch,
    guards,          \* this.guards: sequence of bodies
    player,          \* this.player
    capture_space,   \* this.capture_space
    next_id,         \* identity of the next object made by `new Body`
    camera_transform,\* program_state.camera_transform
    controls,        \* context.scratchpad.controls has been created
    op,              \* history: the operation that produced the current state
    branch,          \* history: the branch of draw_room the last frame ran
    before,          \* history: the screen booleans, op and branch one step ago
    bodyA, bodyB,    \* two bodies a client of class Body holds
    life,            \* history: each one's last emplace and the advances since
    calls,           \* history: number of Body methods called on them
    outcome          \* history: the last call, its arguments and its outcome

scene_vars == <<start, begin, lose, win, playing, treasure_touch, guard_touch,
                guards, player, capture_space, next_id, camera_transform, controls,
                op, branch, before>>

body_vars == <<bodyA, bodyB, life, calls, outcome>>

vars == <<scene_vars, body_vars>>

\* Animation times of a frame: program_state.animation_time / 1000 = 3k/2
\* seconds, the instants at which PI*t/3 is k quarter turns.
AnimationTimes == {0, 1, 3}

\* sin(PI*t/3) + sin(3*PI*t/3)/3 + sin(5*PI*t/3)/5 + sin(7*PI*t/3)/7 at t = 3k/2
SinSum(k) == <<105 * SinQ(k) + 35 * SinQ(3 * k) + 21 * SinQ(5 * k) + 15 * SinQ(7 * k), 105>>

\* cos(PI*t/3) + cos(3*PI*t/3)/3 + cos(5*PI*t/3)/5 + cos(7*PI*t/3)/7 at t = 3k/2
CosSum(k) == <<105 * CosQ(k) + 35 * CosQ(3 * k) + 21 * CosQ(5 * k) + 15 * CosQ(7 * k), 105>>

QInt(n) == <<n, 1>>
QScale(c, q) == <<c * q[1], q[2]>>
QPlus(n, q) == <<n * q[2] + q[1], q[2]>>

\* The walls draw_room draws with draw_box_text: model_transform2 .. 5.
model_transform2 ==
    times(times(Mat4_identity, Mat4_translation(QInt(50), QInt(25), QInt(0))),
          Mat4_scale(QInt(1), QInt(25), QInt(50)))

model_transform3 ==
    times(times(Mat4_identity, Mat4_translation(QInt(-50), QInt(25), QInt(0))),
          Mat4_scale(QInt(1), QInt(25), QInt(50)))

model_transform4 ==
    times(times(Mat4_identity, Mat4_translation(QInt(0), QInt(25), QInt(-50))),
          Mat4_scale(QInt(50), QInt(25), QInt(1)))

model_transform5 ==
    times(times(Mat4_identity, Mat4_translation(QInt(0), QInt(25), QInt(50))),
          Mat4_scale(QInt(50), QInt(25), QInt(1)))

\* capture_sphere of draw_room
capture_sphere ==
    times(times(times(Mat4_identity, Mat4_translation(QInt(0), QInt(5), QInt(-45))),
                Mat4_translation(QInt(0), QInt(5), QInt(0))),
          Mat4_scale(QInt(7), QInt(7), QInt(7)))

\* guard_1 of draw_room at t = 3k/2
guard_1(k) ==
    times(times(times(times(Mat4_identity, Mat4_translation(QInt(45), QInt(5), QInt(0))),
                      Mat4_translation(QInt(0), QInt(0), QScale(-20, SinSum(k)))),
                Mat4_translation(QPlus(-45, QScale(-20, CosSum(k))), QInt(0), QInt(0))),
          Mat4_scale(QInt(1), QInt(5), QInt(3)))

\* guard_2 of draw_room at t = 3k/2
guard_2(k) ==
    times(times(times(times(Mat4_identity, Mat4_translation(QInt(-45), QInt(5), QInt(0))),
                      Mat4_translation(QInt(0), QInt(0), QScale(20, SinSum(k)))),
                Mat4_translation(QPlus(45, QScale(20, CosSum(k))), QInt(0), QInt(0))),
          Mat4_scale(QInt(1), QInt(5), QInt(3)))

\* guard_head / guard_head2 of draw_room, g being guard_1 / guard_2
guard_head(g) ==
    times(times(g, Mat4_translation(QInt(0), <<14, 10>>, QInt(0))),
          Mat4_scale(<<225, 100>>, <<5, 10>>, <<75, 100>>))

\* guard_light / guard_light2 of draw_room: g rotated by q quarter turns about y
guard_light(g, q) ==
    times(times(times(g, Mat4_rotation(q, 0, 1, 0)),
                Mat4_translation(QInt(1), QInt(0), QInt(-10))),
          Mat4_scale(<<5, 10>>, <<5, 10>>, QInt(10)))

\* Quarter turns of guard_light: -PI/2, or PI/2 when sin(PI*t/3) < 0
light_turn_1(k) == IF SinQ(k) < 0 THEN 1 ELSE -1

\* Quarter turns of guard_light2: -PI/2, or PI/2 when sin(PI*t/3) > 0
light_turn_2(k) == IF SinQ(k) > 0 THEN 1 ELSE -1

\* The matrices of the six guard bodies of a frame, in the order draw_room
\* pushes them: g1, gh1, gl1, g2, gh2, gl2.
GuardMatrices ==
    [k \in AnimationTimes |->
        <<guard_1(k), guard_head(guard_1(k)), guard_light(guard_1(k), light_turn_1(k)),
          guard_2(k), guard_head(guard_2(k)), guard_light(guard_2(k), light_turn_2(k))>>]

GuardShapes == <<"cube", "sphere", "cone", "cube", "sphere", "cone">>

\* Poses the movement controls leave in program_state.camera_transform
\* between two frames: the gameplay pose, a pose next to where guard_1 stands
\* at t = 0, a pose at the rim of the capture volume, and a pose at the foot
\* of the wall at x = 50.
CameraTransforms ==
    {Mat4_translation(QInt(0), QInt(10), QInt(47)),
     Mat4_translation(QInt(-32), QInt(8), QInt(0)),
     Mat4_translation(QInt(0), QInt(13), QInt(-38)),
     Mat4_translation(QInt(49), QInt(10), QInt(0))}

\* Mat4.look_at(...Vector.cast([0, 0, 2.2], [0, 0, 0], [0, 1, 0])): the eye on
\* the z axis looking at the origin, a translation by minus the eye.
presentation_camera == Mat4_translation(QInt(0), QInt(0), <<-22, 10>>)

\* Mat4.translation(0, -10, -47)
gameplay_camera == Mat4_translation(QInt(0), QInt(-10), QInt(-47))

\* program_state.set_camera(M): camera_inverse = M, camera_transform = inverse(M)
set_camera(this, M) == [this EXCEPT !.camera_transform = Mat4_inverse(M)]

\* player of draw_room
player_matrix(camera) ==
    times(times(camera, Mat4_translation(QInt(0), QInt(-3), QInt(0))),
          Mat4_scale(QInt(3), QInt(6), QInt(4)))

\* The arguments every body of draw_room is built with are random
\* (size = vec3(1, 1 + Math.random(), 1), a random velocity of length 3, a
\* random angular velocity, the random spin axis emplace defaults to);
\* draw_room reads none of them back.  One draw each.
RandomSize == vec3(1, 1, 1)
RandomLinearVelocity == vec3(0, -3, 0)
RandomAngularVelocity == 0
RandomSpinAxis == vec3(0, 1, 0)

NewPlaced(id, shape, location_matrix) ==
    emplace(Body(id, shape, RandomSize), location_matrix,
            RandomLinearVelocity, RandomAngularVelocity, RandomSpinAxis)

\* The scene object: the fields of `this` that the handlers read and write,
\* with the camera of program_state and the controls of context.scratchpad.
This ==
    [start |-> start, begin |-> begin, lose |-> lose, win |-> win,
     playing |-> playing, treasure_touch |-> treasure_touch,
     guard_touch |-> guard_touch, guards |-> guards, player |-> player,
     capture_space |-> capture_space, next_id |-> next_id,
     camera_transform |-> camera_transform, controls |-> controls]

\* What the history variable `before` keeps of a state.
Snapshot ==
    [start |-> start, begin |-> begin, lose |-> lose, win |-> win,
     playing |-> playing, treasure_touch |-> treasure_touch,
     op |-> op, branch |-> branch]

\* The next state is the scene object r, reached by operation o.
Becomes(r, o, br) ==
    /\ start' = r.start
    /\ begin' = r.begin
    /\ lose' = r.lose
    /\ win' = r.win
    /\ playing' = r.playing
    /\ treasure_touch' = r.treasure_touch
    /\ guard_touch' = r.guard_touch
    /\ guards' = r.guards
    /\ player' = r.player
    /\ capture_space' = r.capture_space
    /\ next_id' = r.next_id
    /\ camera_transform' = r.camera_transform
    /\ controls' = r.controls
    /\ op' = o
    /\ branch' = br
    /\ before' = Snapshot
    /\ UNCHANGED body_vars

\* The outcome of no call.
NoCall ==
    [op |-> "-", self |-> "-", other |-> "-", thrown |-> FALSE, result |-> FALSE,
     alpha |-> <<0, 1>>, was |-> "-"]

\* Two bodies made by new Body(shape, material, size), nothing called on them.
Constructed(sizeA, sizeB) ==
    /\ bodyA = Body(-8, "sphere", sizeA)
    /\ bodyB = Body(-9, "sphere", sizeB)
    /\ life = [X \in {"A", "B"} |->
                  [is |-> "constructed", placed |-> undefined, advances |-> 0]]
    /\ calls = 0
    /\ outcome = NoCall

\* Base_Scene constructor: this.guards = [], this.player = new Body(),
\* this.capture_space = new Body(), every screen boolean false.
Init ==
    /\ Constructed(vec3(1, 1, 1), vec3(1, 1, 1))
    /\ start = FALSE
    /\ begin = FALSE
    /\ lose = FALSE
    /\ win = FALSE
    /\ playing = FALSE
    /\ treasure_touch = FALSE
    /\ guard_touch = FALSE
    /\ guards = <<>>
    /\ player = Body(0, "undefined", undefined_vec)
    /\ capture_space = Body(1, "undefined", undefined_vec)
    /\ next_id = 2
    /\ camera_transform = Mat4_identity
    /\ controls = FALSE
    /\ op = "constructor"
    /\ branch = "-"
    /\ before = [start |-> FALSE, begin |-> FALSE, lose |-> FALSE, win |-> FALSE,
                 playing |-> FALSE, treasure_touch |-> FALSE,
                 op |-> "constructor", branch |-> "-"]

\* start_game() that forgets this.win = false
start_game_keeps_win(this) ==
    IF ~this.playing
    THEN [this EXCEPT !.begin = TRUE, !.lose = FALSE, !.playing = TRUE]
    ELSE this

\* start_game() without the test of this.playing
start_game_unguarded(this) ==
    [this EXCEPT !.begin = TRUE, !.lose = FALSE, !.win = FALSE, !.playing = TRUE]

\* start_game() that forgets this.lose = false
start_game_keeps_lose(this) ==
    IF ~this.playing
    THEN [this EXCEPT !.begin = TRUE, !.win = FALSE, !.playing = TRUE]
    ELSE this

\* Assignment2.start_game()
start_game(this) ==
    IF ~this.playing
    THEN [this EXCEPT !.begin = TRUE, !.lose = FALSE, !.win = FALSE, !.playing = TRUE]
    ELSE this

\* capture_treasure() that forgets this.playing = false
capture_treasure_keeps_playing(this) ==
    IF this.treasure_touch
    THEN [this EXCEPT !.win = TRUE, !.begin = FALSE]
    ELSE this

\* Assignment2.capture_treasure()
capture_treasure(this) ==
    IF this.treasure_touch
    THEN [this EXCEPT !.win = TRUE, !.begin = FALSE, !.playing = FALSE]
    ELSE this

\* lose_game() whose else branch forgets this.begin = false
lose_game_keeps_begin(this) ==
    IF this.guard_touch
    THEN [this EXCEPT !.lose = TRUE, !.begin = FALSE, !.playing = FALSE]
    ELSE [this EXCEPT !.lose = TRUE, !.playing = FALSE]

\* Assignment2.lose_game(): both branches of the test of guard_touch are the same
lose_game(this) ==
    IF this.guard_touch
    THEN [this EXCEPT !.lose = TRUE, !.begin = FALSE, !.playing = FALSE]
    ELSE [this EXCEPT !.lose = TRUE, !.begin = FALSE, !.playing = FALSE]

\* The bodies the loop of draw_room tests against the player.
tested_bodies(this) == this.guards

\* The loop with `break` in place of `continue`: it stops at the first body
\* that does not collide.
RECURSIVE guard_loop_break(_, _, _)
guard_loop_break(this0, collider, j) ==
    IF j > Len(tested_bodies(this0)) THEN this0
    ELSE IF ~check_if_colliding(this0.player, tested_bodies(this0)[j], collider) THEN this0
    ELSE CHOOSE r \in
            {guard_loop_break(this, collider, j + 1) : this \in {lose_game(this0)}} : TRUE

\* for (let b of this.guards) if (this.player.check_if_colliding(b, collider)) this.lose_game()
\* from the j-th body on.
RECURSIVE guard_loop(_, _, _)
guard_loop(this0, collider, j) ==
    IF j > Len(tested_bodies(this0)) THEN this0
    ELSE CHOOSE r \in
            {guard_loop(this, collider, j + 1) :
             this \in {IF check_if_colliding(this0.player, tested_bodies(this0)[j], collider)
                       THEN lose_game(this0) ELSE this0}} : TRUE

\* The treasure_touch update that ends the playing branch of draw_room.
treasure_check(this, collider) ==
    IF check_if_colliding(this.player, this.capture_space, collider)
    THEN [this EXCEPT !.treasure_touch = TRUE]
    ELSE [this EXCEPT !.treasure_touch = FALSE]

\* if (this.begin) { program_state.set_camera(Mat4.translation(0, -10, -47)) }
begin_camera(this) ==
    IF this.begin THEN set_camera(this, gameplay_camera) ELSE this

\* The start-screen block with this.start = true commented out, as it is in
\* the win, lose and playing branches.
start_branch_keeps_start(this) ==
    IF ~this.start
    THEN IF this.begin
         THEN set_camera(this, gameplay_camera)
         ELSE set_camera(this, presentation_camera)
    ELSE this

\* The start-screen block of draw_room:
\* if (!this.start) { set_camera(look_at); if (this.begin) { this.start = true; set_camera(..) } }
start_branch(this) ==
    IF ~this.start
    THEN IF this.begin
         THEN set_camera([this EXCEPT !.start = TRUE], gameplay_camera)
         ELSE set_camera(this, presentation_camera)
    ELSE this

\* A win / lose screen that dismisses itself.
screen_branch_dismisses(this) ==
    [begin_camera(set_camera(this, presentation_camera)) EXCEPT !.win = FALSE, !.lose = FALSE]

\* The win and the lose branch of draw_room: the presentation camera.
screen_branch(this) == begin_camera(set_camera(this, presentation_camera))

\* The playing branch taking the inverse of the camera pose, not of the
\* drawn_location of the player placed from it.
playing_branch_camera_inverse(this0, k) ==
    CHOOSE r \in
        {treasure_check(
            guard_loop([this EXCEPT !.begin = FALSE,
                                    !.capture_space = cs,
                                    !.guards = this.guards \o gs,
                                    !.player = [pmodel EXCEPT !.inverse =
                                                   Mat4_inverse(this.camera_transform)],
                                    !.next_id = this.next_id + 8],
                       colliders[collider_selection + 1], 1),
            colliders[collider_selection + 1]) :
         this \in {begin_camera(this0)},
         cs \in {NewPlaced(this0.next_id, "sphere", capture_sphere)},
         gs \in {[i \in 1..6 |->
                    NewPlaced(this0.next_id + i, GuardShapes[i], GuardMatrices[k][i])]},
         pmodel \in {NewPlaced(this0.next_id + 7, "sphere",
                               player_matrix(begin_camera(this0).camera_transform))}} : TRUE

\* The playing branch of draw_room at time index k: new bodies for the capture
\* volume, the six guard parts and the player, in that order; the guard parts
\* are pushed on this.guards.
playing_branch(this0, k) ==
    CHOOSE r \in
        {treasure_check(
            guard_loop([this EXCEPT !.begin = FALSE,
                                    !.capture_space = cs,
                                    !.guards = this.guards \o gs,
                                    !.player = [pmodel EXCEPT !.inverse =
                                                   Mat4_inverse(pmodel.drawn_location)],
                                    !.next_id = this.next_id + 8],
                       colliders[collider_selection + 1], 1),
            colliders[collider_selection + 1]) :
         this \in {begin_camera(this0)},
         cs \in {NewPlaced(this0.next_id, "sphere", capture_sphere)},
         gs \in {[i \in 1..6 |->
                    NewPlaced(this0.next_id + i, GuardShapes[i], GuardMatrices[k][i])]},
         pmodel \in {NewPlaced(this0.next_id + 7, "sphere",
                               player_matrix(begin_camera(this0).camera_transform))}} : TRUE

\* The branch of draw_room that runs after the start-screen block.
branch_of(this) ==
    IF this.win THEN "win"
    ELSE IF this.lose THEN "lose"
    ELSE IF this.playing THEN "playing"
    ELSE "none"

\* Assignment2.draw_room(): the start block, then win / lose / playing.
draw_room(this0, k) ==
    CHOOSE r \in
        {IF this.win THEN screen_branch(this)
         ELSE IF this.lose THEN screen_branch(this)
         ELSE IF this.playing THEN playing_branch(this, k)
         ELSE this : this \in {start_branch(this0)}} : TRUE

\* Base_Scene.display(): the first frame creates the movement controls and
\* sets the gameplay camera; the controls move the camera between frames.
base_display(this, camera) ==
    IF ~this.controls
    THEN set_camera([this EXCEPT !.controls = TRUE], gameplay_camera)
    ELSE [this EXCEPT !.camera_transform = camera]

\* Assignment2.display(): one frame of animation at time index k, the movement
\* controls having left the camera at `camera`.  A frame that runs the
\* playing branch adds six bodies to this.guards.
display ==
    /\ branch_of(This) = "playing" => Len(guards) + 6 <= 6 * MaxFrames
    /\ \E k \in AnimationTimes, camera \in CameraTransforms :
           Becomes(draw_room(base_display(This, camera), k), "display", branch_of(This))

\* The "Start Game" button / space key.
StartGame == Becomes(start_game(This), "start_game", "-")

\* The "Capture treasure" button / c key.
CaptureTreasure == Becomes(capture_treasure(This), "capture_treasure", "-")

\* The "Quit/AutoLoss" button / h key.
LoseGame == Becomes(lose_game(This), "lose_game", "-")

Next == StartGame \/ CaptureTreasure \/ LoseGame \/ display

Spec == Init /\ [][Next]_vars

\* ------------------------------------------------- the Body class by itself
\* A client of class Body: it makes two bodies, A that it places, moves and
\* draws (emplace, advance, blend_state) and B that it places, assigns them
\* inverse = Mat4.inverse(drawn_location) as draw_room does for the player,
\* and calls check_if_colliding on either with either, in any order.

\* The bodies the client moves.
Moved == {"A"}

\* Sizes body A is made with; body B is made with vec3(1, 1, 1).
Sizes == {vec3(1, 1, 1), vec3(1, 2, 1)}

\* Arguments of emplace: a unit sphere at the origin, at (5, 0, 0), at
\* (3/10, 0, 0) and at (12, 0, 0), and a sphere of radius 10 at the origin.
Emplacements ==
    {[location_matrix |-> Mat4_translation(QInt(0), QInt(0), QInt(0)),
      linear_velocity |-> vec3(0, -3, 0), angular_velocity |-> 1,
      spin_axis |-> vec3(0, 1, 0)],
     [location_matrix |-> Mat4_translation(QInt(5), QInt(0), QInt(0)),
      linear_velocity |-> vec3(1, 0, 2), angular_velocity |-> 0,
      spin_axis |-> vec3(0, 0, 1)],
     [location_matrix |-> Mat4_translation(<<3, 10>>, QInt(0), QInt(0)),
      linear_velocity |-> vec3(0, 0, 0), angular_velocity |-> 1,
      spin_axis |-> vec3(1, 0, 0)],
     [location_matrix |-> Mat4_translation(QInt(12), QInt(0), QInt(0)),
      linear_velocity |-> vec3(-1, 0, 0), angular_velocity |-> 0,
      spin_axis |-> vec3(0, 1, 0)],
     [location_matrix |-> Mat4_scale(QInt(10), QInt(10), QInt(10)),
      linear_velocity |-> vec3(0, -3, 0), angular_velocity |-> 1,
      spin_axis |-> vec3(0, 0, 1)]}

\* Arguments of advance.
TimeAmounts == {1}

\* Arguments of blend_state.
Alphas == {<<0, 1>>, <<1, 2>>, <<1, 1>>}

BodyInit ==
    /\ \E sizeA \in Sizes : Constructed(sizeA, vec3(1, 1, 1))
    /\ start = FALSE
    /\ begin = FALSE
    /\ lose = FALSE
    /\ win = FALSE
    /\ playing = FALSE
    /\ treasure_touch = FALSE
    /\ guard_touch = FALSE
    /\ guards = <<>>
    /\ player = Body(0, "undefined", undefined_vec)
    /\ capture_space = Body(1, "undefined", undefined_vec)
    /\ next_id = 2
    /\ camera_transform = Mat4_identity
    /\ controls = FALSE
    /\ op = "constructor"
    /\ branch = "-"
    /\ before = [start |-> FALSE, begin |-> FALSE, lose |-> FALSE, win |-> FALSE,
                 playing |-> FALSE, treasure_touch |-> FALSE,
                 op |-> "constructor", branch |-> "-"]

\* The body called X.
BodyOf(X) == IF X = "A" THEN bodyA ELSE bodyB

\* The call o on body X, with the other argument Y, leaves X as b.
Called(o, X, Y, b, thrown, result, alpha, now) ==
    /\ calls < MaxCalls
    /\ calls' = calls + 1
    /\ bodyA' = IF X = "A" THEN b ELSE bodyA
    /\ bodyB' = IF X = "B" THEN b ELSE bodyB
    /\ life' = [life EXCEPT ![X] = now]
    /\ outcome' = [op |-> o, self |-> X, other |-> Y, thrown |-> thrown,
                   result |-> result, alpha |-> alpha, was |-> life[X].is]
    /\ UNCHANGED scene_vars

\* X.emplace(location_matrix, linear_velocity, angular_velocity, spin_axis)
Emplace ==
    \E X \in {"A", "B"}, e \in Emplacements :
        Called("emplace", X, "-",
               emplace(BodyOf(X), e.location_matrix, e.linear_velocity,
                       e.angular_velocity, e.spin_axis),
               FALSE, FALSE, <<0, 1>>,
               [is |-> "placed", placed |-> e.location_matrix, advances |-> 0])

\* X.advance(time_amount)
Advance ==
    \E X \in Moved, time_amount \in TimeAmounts :
        IF advance_throws(BodyOf(X))
        THEN Called("advance", X, "-", BodyOf(X), TRUE, FALSE, <<0, 1>>, life[X])
        ELSE Called("advance", X, "-", advance(BodyOf(X), time_amount),
                    FALSE, FALSE, <<0, 1>>,
                    [life[X] EXCEPT !.is = "advanced", !.advances = @ + 1])

\* X.blend_state(alpha)
BlendState ==
    \E X \in Moved, alpha \in Alphas :
        IF blend_state_throws(BodyOf(X))
        THEN Called("blend_state", X, "-", BodyOf(X), TRUE, FALSE, alpha, life[X])
        ELSE Called("blend_state", X, "-", blend_state(BodyOf(X), alpha),
                    FALSE, FALSE, alpha, life[X])

\* X.inverse = Mat4.inverse(X.drawn_location), of a body that has a
\* drawn_location.
SetInverse ==
    \E X \in {"A", "B"} :
        /\ BodyOf(X).drawn_location # undefined
        /\ Called("inverse", X, "-",
                  [BodyOf(X) EXCEPT !.inverse = Mat4_inverse(BodyOf(X).drawn_location)],
                  FALSE, FALSE, <<0, 1>>, life[X])

\* X.check_if_colliding(Y, collider) with the collider of the scene
Check ==
    \E X \in {"A", "B"}, Y \in {"A", "B"} :
        IF check_if_colliding_throws(BodyOf(X), BodyOf(Y))
        THEN Called("check_if_colliding", X, Y, BodyOf(X), TRUE, FALSE, <<0, 1>>, life[X])
        ELSE Called("check_if_colliding", X, Y, BodyOf(X), FALSE,
                    check_if_colliding(BodyOf(X), BodyOf(Y), colliders[collider_selection + 1]),
                    <<0, 1>>, life[X])

BodyNext == Emplace \/ Advance \/ BlendState \/ SetInverse \/ Check

BodySpec == BodyInit /\ [][BodyNext]_vars

-----------------------------------------------------------------------------
\* A client of the two static point tests of class Body.

\* The points p: every point of the half-unit grid within MaxCoord/2.
Points ==
    {Vec(<<x, y, z>>, 2) : x \in -MaxCoord..MaxCoord, y \in -MaxCoord..MaxCoord,
                           z \in -MaxCoord..MaxCoord}

\* The margins: the default 0, the leeways of the three colliders, and 1.
Margins == {<<0, 1>>} \cup {colliders[i].leeway : i \in 1..3} \cup {<<1, 1>>}

\* The client holds a point and a margin and has called no test yet.
PointInit ==
    /\ bodyA = Body(-8, "sphere", vec3(1, 1, 1))
    /\ bodyB = Body(-9, "sphere", vec3(1, 1, 1))
    /\ life = [X \in {"A", "B"} |->
                  [is |-> "constructed", placed |-> undefined, advances |-> 0]]
    /\ calls = 0
    /\ \E p \in Points, margin \in Margins :
           outcome = [op |-> "-", self |-> "-", other |-> "-", thrown |-> FALSE,
                      result |-> FALSE, alpha |-> <<0, 1>>, was |-> "-",
                      point |-> p, margin |-> margin]
    /\ start = FALSE
    /\ begin = FALSE
    /\ lose = FALSE
    /\ win = FALSE
    /\ playing = FALSE
    /\ treasure_touch = FALSE
    /\ guard_touch = FALSE
    /\ guards = <<>>
    /\ player = Body(0, "undefined", undefined_vec)
    /\ capture_space = Body(1, "undefined", undefined_vec)
    /\ next_id = 2
    /\ camera_transform = Mat4_identity
    /\ controls = FALSE
    /\ op = "constructor"
    /\ branch = "-"
    /\ before = [start |-> FALSE, begin |-> FALSE, lose |-> FALSE, win |-> FALSE,
                 playing |-> FALSE, treasure_touch |-> FALSE,
                 op |-> "constructor", branch |-> "-"]

\* A call of test name on the client's point and margin; it assigns nothing.
Tested(name) ==
    /\ outcome' = [outcome EXCEPT !.op = name,
                                  !.result = intersect_test(name, outcome.point, outcome.margin)]
    /\ UNCHANGED <<scene_vars, bodyA, bodyB, life, calls>>

IntersectSphere == Tested("intersect_sphere")

IntersectCube == Tested("intersect_cube")

PointNext == IntersectSphere \/ IntersectCube

PointSpec == PointInit /\ [][PointNext]_vars

\* ----------------------------------------------------------------- claims
\* The collider profile draw_room uses.
Collider == colliders[collider_selection + 1]

\* The guard bodies positioned by the last frame, when it ran the playing
\* branch: the six bodies it made between the capture volume and the player.
FreshGuards ==
    {guards[j] : j \in {i \in 1..Len(guards) : guards[i].id >= next_id - 8}}

\* The last step was a frame evaluated while playing was true.
FrameWhilePlaying == op = "display" /\ before.playing

\* The player collides with a guard body positioned by the last frame.
GuardHit == \E b \in FreshGuards : check_if_colliding(player, b, Collider)

\* The phase the screen booleans f stand for is Start.
InStart(f) == ~f.playing /\ ~f.win /\ ~f.lose

\* C1: a begin trigger fired while playing is false ends with playing true
\* and win and lose false.
C1_BeginEntersPlaying ==
    (op = "start_game" /\ ~before.playing) => (playing /\ ~win /\ ~lose)

\* A begin trigger has just restarted, from Lose, a game that had been played.
C1_Witness == op = "start_game" /\ start /\ before.lose /\ ~before.playing /\ playing

\* A capture volume that the player of the last frame touches: one placed
\* where the player is.
TouchingVolume == NewPlaced(-2, "sphere", player.drawn_location)

\* C2: a frame evaluated while Playing in which the player collides with a
\* guard body of that frame ends in Lose (lose true, playing and win false),
\* and the proximity check that ends the frame leaves it so whether it finds
\* the capture volume of the frame or one that the player touches.
C2_GuardCollisionLoses ==
    (FrameWhilePlaying /\ GuardHit) =>
        /\ lose /\ ~playing /\ ~win
        /\ \A cs \in {capture_space, TouchingVolume} :
               \E r \in {treasure_check([This EXCEPT !.capture_space = cs], Collider)} :
                   r.lose /\ ~r.playing /\ ~r.win

\* A playing frame has just found the player on a guard of that frame.
C2_Witness == FrameWhilePlaying /\ branch = "playing" /\ GuardHit /\ lose

\* C3: win turns from false to true only in a capture_treasure step taken
\* while playing and treasure_touch are true.
C3_WinOnlyByCaptureWhilePlaying ==
    (~before.win /\ win) =>
        (op = "capture_treasure" /\ before.playing /\ before.treasure_touch)

\* C4: at most one of playing, win and lose is true.
C4_OnePhase ==
    /\ ~(playing /\ win)
    /\ ~(playing /\ lose)
    /\ ~(win /\ lose)

\* C5: a frame evaluated in Win or Lose changes none of win, lose, playing,
\* and playing turns true only in a start_game step.
C5_WinLoseTerminal ==
    /\ (op = "display" /\ (before.win \/ before.lose)) =>
           (win = before.win /\ lose = before.lose /\ playing = before.playing)
    /\ (~before.playing /\ playing) => op = "start_game"

\* A frame has just been evaluated in the Lose that ended a played game.
C5_Witness ==
    op = "display" /\ branch = "lose" /\ start /\ before.lose /\ ~before.win /\ lose

\* C6: from Start, every step other than a begin trigger ends in Start.
C6_StartLeftOnlyByBegin ==
    (InStart(before) /\ op # "start_game") => InStart(This)

\* C7: a forced-loss trigger fired while Playing ends with lose true, playing
\* and begin false, and lose_game gives that result for every value of
\* guard_touch and treasure_touch.
C7_ForcedLoss ==
    /\ (op = "lose_game" /\ before.playing) => (lose /\ ~playing /\ ~begin)
    /\ playing =>
           \A gt \in BOOLEAN, tt \in BOOLEAN :
               \E r \in {lose_game([This EXCEPT !.guard_touch = gt,
                                                !.treasure_touch = tt])} :
                   r.lose /\ ~r.playing /\ ~r.begin

\* A forced loss has just been fired during play by a player that the last
\* frame found in the capture volume.
C7_Witness ==
    op = "lose_game" /\ before.playing /\ before.treasure_touch /\ lose /\ ~playing

\* C8: a capture trigger applied right after a playing frame that found the
\* player in the capture volume and no collision ends in Win.
C8_CaptureWins ==
    (op = "capture_treasure" /\ before.op = "display" /\ before.branch = "playing"
        /\ before.playing /\ before.treasure_touch)
    => (win /\ ~playing /\ ~lose)

\* A capture trigger has just followed such a frame.
C8_Witness ==
    /\ op = "capture_treasure" /\ before.op = "display" /\ before.branch = "playing"
    /\ before.playing /\ before.treasure_touch /\ ~before.win
    /\ win

\* C9: in every playing frame the bodies tested against the player are
\* exactly the guard bodies positioned in that frame, so a Lose found by the
\* frame is caused by a guard body of that frame.
C9_OnlyFreshBodiesTested ==
    (op = "display" /\ branch = "playing") =>
        /\ {tested_bodies(This)[j].id : j \in 1..Len(tested_bodies(This))}
               = {b.id : b \in FreshGuards}
        /\ lose => GuardHit

\* The player body and the capture volume of the frame that left the camera
\* where it is.
FramePlayer ==
    [NewPlaced(-1, "sphere", player_matrix(camera_transform))
        EXCEPT !.inverse = Mat4_inverse(player_matrix(camera_transform))]

FrameCapture == NewPlaced(-2, "sphere", capture_sphere)

\* C10: after every frame, in whatever phase, treasure_touch is the result
\* of the proximity check of that frame.
C10_TreasureTouchSetEveryFrame ==
    op = "display" =>
        (treasure_touch = check_if_colliding(FramePlayer, FrameCapture, Collider))

\* The walls as bodies: what a wall test of draw_room would be given.
WallBodies ==
    {NewPlaced(-3, "cube", model_transform2), NewPlaced(-4, "cube", model_transform3),
     NewPlaced(-5, "cube", model_transform4), NewPlaced(-6, "cube", model_transform5)}

\* The player of the last frame collides with a wall.
WallHit == \E w \in WallBodies : check_if_colliding(player, w, Collider)

\* C11: a frame evaluated while Playing in which the player collides with a
\* wall ends in Lose (lose true, playing and win false).
C11_WallCollisionLoses ==
    (FrameWhilePlaying /\ branch = "playing" /\ WallHit) => (lose /\ ~playing /\ ~win)

\* C12: in every playing frame the player is placed from the camera of the
\* frame and player.inverse is the inverse of that drawn_location when the
\* guard checks and then the proximity check read it: the inverse times the
\* drawn_location is the identity, treasure_touch is the proximity check made
\* with it, and a guard on the list that collides under it has lost the game.
C12_FreshInverse ==
    (op = "display" /\ branch = "playing") =>
        /\ player.drawn_location = player_matrix(camera_transform)
        /\ times(player.inverse, player.drawn_location) = Mat4_identity
        /\ treasure_touch = check_if_colliding(player, capture_space, Collider)
        /\ (\E j \in 1..Len(guards) : check_if_colliding(player, guards[j], Collider))
               => lose

\* A second playing frame in a row has found the player, moved since the
\* frame before, at the capture volume.
C12_Witness ==
    /\ op = "display" /\ branch = "playing"
    /\ before.op = "display" /\ before.branch = "playing" /\ ~before.treasure_touch
    /\ treasure_touch

\* The bodies the scene holds.
SceneBodies == {player, capture_space} \cup {guards[j] : j \in 1..Len(guards)}

\* Another object with the fields of b.
Twin(b) == [b EXCEPT !.id = -7]

\* C13: for every body A of the scene, placed or not, with or without an
\* inverse, and every collider profile, A.check_if_colliding(A, profile) is
\* false; the test is one of identity: a second object with the same fields
\* as the player is tested, and found colliding.
C13_SelfExclusion ==
    /\ \A a \in SceneBodies : \A i \in 1..Len(colliders) :
           check_if_colliding(a, a, colliders[i]) = FALSE
    /\ player.inverse # undefined =>
           \A i \in 1..Len(colliders) : check_if_colliding(player, Twin(player), colliders[i])

\* The scene holds a player with an inverse, guards without one and guards
\* of two frames with equal placements.
C13_Witness ==
    /\ player.inverse # undefined
    /\ Len(guards) > 6
    /\ guards[1].inverse = undefined
    /\ guards[1].drawn_location = guards[7].drawn_location
    /\ ~check_if_colliding(player, player, Collider)

\* The sample points of the profile that, mapped through
\* inverse(a.drawn_location) * b.drawn_location, satisfy the profile's test.
SampleHits(a, b, collider) ==
    {p \in collider.points :
        intersect_test(collider.intersect_test,
                       times_point(times(Mat4_inverse(a.drawn_location), b.drawn_location), p),
                       collider.leeway)}

\* The bodies a playing frame tests the player against.
FrameTested == {capture_space} \cup {guards[j] : j \in 1..Len(guards)}

\* C14: for the player A of a playing frame and every other body B the frame
\* tests, A.check_if_colliding(B, profile) is true exactly when at least one
\* sample point of the profile, mapped through
\* inverse(A.drawn_location) * B.drawn_location, satisfies the profile's test
\* with the profile's leeway: for the profile of the frame and every tested
\* body, and for each of the three profiles and the capture volume.
C14_SomeSamplePoint ==
    (op = "display" /\ branch = "playing") =>
        /\ \A b \in FrameTested :
               check_if_colliding(player, b, Collider)
                   = (Cardinality(SampleHits(player, b, Collider)) >= 1)
        /\ \A i \in 1..Len(colliders) :
               check_if_colliding(player, capture_space, colliders[i])
                   = (Cardinality(SampleHits(player, capture_space, colliders[i])) >= 1)

\* A playing frame whose player is reached by some, not all, sample points of
\* the capture volume and by none of a guard.
C14_Witness ==
    /\ op = "display" /\ branch = "playing"
    /\ SampleHits(player, capture_space, Collider) \notin {{}, Collider.points}
    /\ \E j \in 1..Len(guards) : SampleHits(player, guards[j], Collider) = {}

\* C23: in every reachable state, playing true implies win and lose false, and
\* begin true implies playing true.
C23_PlayingExcludesEnd ==
    /\ playing => (~win /\ ~lose)
    /\ begin => playing

\* A begin trigger has just restarted the game from Win.
C23_Witness ==
    /\ op = "start_game" /\ before.win /\ ~before.playing
    /\ playing /\ begin /\ ~win

\* C24: a begin trigger fired while playing is true leaves start, begin,
\* playing, win, lose and treasure_touch as they were.
C24_BeginIgnoredInPlay ==
    (op = "start_game" /\ before.playing) =>
        /\ start = before.start
        /\ begin = before.begin
        /\ playing = before.playing
        /\ win = before.win
        /\ lose = before.lose
        /\ treasure_touch = before.treasure_touch

\* A begin trigger was fired on a game in progress, after a frame of it that
\* had cleared begin.
C24_Witness ==
    /\ op = "start_game" /\ before.playing
    /\ before.op = "display" /\ before.branch = "playing"
    /\ before.start /\ ~before.begin
    /\ playing /\ ~begin

\* C25: start is false after construction; no step turns start from true to
\* false; a frame evaluated while playing is true ends with start true; no
\* step leads from Playing, Win or Lose back to Start; and a begin trigger
\* fired in Win or Lose ends in Playing with start as it was.
C25_StartNotReentered ==
    /\ op = "constructor" => ~start
    /\ before.start => start
    /\ (op = "display" /\ before.playing) => start
    /\ ~InStart(before) => ~InStart(This)
    /\ (op = "start_game" /\ (before.win \/ before.lose)) =>
           (playing /\ ~win /\ ~lose /\ start = before.start)

\* The first frame of a game has just set start.
C25_Witness ==
    /\ op = "display" /\ before.playing /\ before.begin /\ ~before.start
    /\ start /\ playing

\* --------------------------------------------- claims about the Body class
\* Scalars <<n, d>>: order, sum, product.
QLess(x, y) == x[1] * y[2] < y[1] * x[2]
QSum(x, y) == <<x[1] * y[2] + y[1] * x[2], x[2] * y[2]>>
QTimes(x, y) == <<x[1] * y[1], x[2] * y[2]>>

Max(S) == CHOOSE x \in S : \A y \in S : y <= x

\* The bounding radius of the volume a body is drawn as: the largest of the
\* absolute row and column sums of the linear part of drawn_location, which
\* is the radius for an axis-aligned sphere and bounds it otherwise.
BoundingRadius(b) ==
    <<Max({Abs(b.drawn_location.m[i][1]) + Abs(b.drawn_location.m[i][2])
               + Abs(b.drawn_location.m[i][3]) : i \in 1..3}
          \cup {Abs(b.drawn_location.m[1][j]) + Abs(b.drawn_location.m[2][j])
                    + Abs(b.drawn_location.m[3][j]) : j \in 1..3}),
      b.drawn_location.d>>

\* The square of the distance between the centers two bodies are drawn at.
DistanceSq(a, b) ==
    LET u == translation_of(a.drawn_location)
        v == translation_of(b.drawn_location)
        w == vec_plus(u, vec_times(v, <<-1, 1>>))
    IN  <<w.v[1] * w.v[1] + w.v[2] * w.v[2] + w.v[3] * w.v[3], w.d * w.d>>

\* Body a has a drawn_location and its inverse is the inverse of that.
FreshInverse(a) ==
    /\ a.drawn_location # undefined
    /\ a.inverse # undefined
    /\ times(a.inverse, a.drawn_location) = Mat4_identity

\* Two distinct placed bodies, the first with a fresh inverse, drawn farther
\* apart than the gap.
Apart(a, b, gap) ==
    /\ a.id # b.id
    /\ FreshInverse(a)
    /\ b.drawn_location # undefined
    /\ QLess(QTimes(gap, gap), DistanceSq(a, b))

UnitAt(x) == Mat4_translation(x, QInt(0), QInt(0))

\* C15 as stated: two bodies whose centers are farther apart than the sum
\* of their bounding radii plus the leeway do not collide under the sphere
\* profile.
C15_Separation ==
    \A X \in {"A", "B"}, Y \in {"A", "B"} :
        Apart(BodyOf(X), BodyOf(Y),
              QSum(QSum(BoundingRadius(BodyOf(X)), BoundingRadius(BodyOf(Y))),
                   Collider.leeway))
            => ~check_if_colliding(BodyOf(X), BodyOf(Y), Collider)

\* C15, amended: two bodies whose centers are farther apart than the
\* bounding radius of B plus that of A widened by the leeway, (1 + leeway)
\* times its radius, do not collide under the sphere profile, and a check
\* called on such a pair returns false; in particular a unit sphere A at
\* the origin and a unit sphere B at (5, 0, 0) do not collide.
C15_SeparationScaled ==
    /\ \A X \in {"A", "B"}, Y \in {"A", "B"} :
           Apart(BodyOf(X), BodyOf(Y),
                 QSum(QTimes(BoundingRadius(BodyOf(X)), QSum(QInt(1), Collider.leeway)),
                      BoundingRadius(BodyOf(Y))))
               => /\ ~check_if_colliding(BodyOf(X), BodyOf(Y), Collider)
                  /\ (outcome.op = "check_if_colliding" /\ outcome.self = X
                          /\ outcome.other = Y) => ~outcome.result
    /\ (FreshInverse(bodyA) /\ bodyA.drawn_location = UnitAt(QInt(0))
           /\ bodyB.drawn_location = UnitAt(QInt(5)))
        => ~check_if_colliding(bodyA, bodyB, Collider)

\* A.check_if_colliding(B) has just returned for a unit sphere A at the origin
\* and a unit sphere B at (5, 0, 0).
C15_Witness ==
    /\ outcome.op = "check_if_colliding" /\ outcome.self = "A" /\ outcome.other = "B"
    /\ ~outcome.thrown /\ ~outcome.result
    /\ FreshInverse(bodyA) /\ bodyA.drawn_location = UnitAt(QInt(0))
    /\ bodyB.drawn_location = UnitAt(QInt(5))

\* A is drawn as a unit sphere at the origin, its inverse fresh, and B as a
\* unit sphere at (x, 0, 0).
UnitPair(x) ==
    /\ FreshInverse(bodyA)
    /\ bodyA.drawn_location = UnitAt(QInt(0))
    /\ bodyB.drawn_location = UnitAt(x)

\* C16: with A a unit sphere at the origin and B a unit sphere at
\* (3/10, 0, 0), A.check_if_colliding(B, profile) is true under the sphere
\* profile of leeway 1/2, and a call of it returns true.
C16_Overlap ==
    UnitPair(<<3, 10>>) =>
        /\ Collider.intersect_test = "intersect_sphere" /\ Collider.leeway = <<1, 2>>
        /\ check_if_colliding(bodyA, bodyB, Collider)
        /\ (outcome.op = "check_if_colliding" /\ outcome.self = "A" /\ outcome.other = "B")
               => (~outcome.thrown /\ outcome.result)

\* A.check_if_colliding(B) has just returned true for that pair.
C16_Witness ==
    /\ UnitPair(<<3, 10>>)
    /\ outcome.op = "check_if_colliding" /\ outcome.self = "A" /\ outcome.other = "B"
    /\ outcome.result

Scale10 == Mat4_scale(QInt(10), QInt(10), QInt(10))

\* C17: check_if_colliding is not symmetric.  With a small body X, a unit
\* sphere at the origin or at (3/10, 0, 0), inside a large body Y, a sphere of
\* radius 10 at the origin, both with a fresh inverse, no sample point of Y
\* reaches X and every sample point of X is inside Y:
\* X.check_if_colliding(Y, profile) is false and Y.check_if_colliding(X,
\* profile) is true, and a call of either returns that.
C17_NotSymmetric ==
    \A X \in {"A", "B"}, Y \in {"A", "B"} :
        (/\ X # Y
         /\ FreshInverse(BodyOf(X)) /\ FreshInverse(BodyOf(Y))
         /\ BodyOf(X).drawn_location \in {UnitAt(QInt(0)), UnitAt(<<3, 10>>)}
         /\ BodyOf(Y).drawn_location = Scale10)
        => /\ ~check_if_colliding(BodyOf(X), BodyOf(Y), Collider)
           /\ check_if_colliding(BodyOf(Y), BodyOf(X), Collider)
           /\ outcome.op = "check_if_colliding" /\ outcome.self # outcome.other
                  => (~outcome.thrown /\ outcome.result = (outcome.self = Y))

\* B, the large body that contains A, has just been found colliding with A,
\* which is not colliding with B.
C17_Witness ==
    /\ FreshInverse(bodyA) /\ FreshInverse(bodyB)
    /\ bodyA.drawn_location = UnitAt(<<3, 10>>)
    /\ bodyB.drawn_location = Scale10
    /\ outcome.op = "check_if_colliding" /\ outcome.self = "B" /\ outcome.other = "A"
    /\ outcome.result
    /\ ~check_if_colliding(bodyA, bodyB, Collider)

\* The size of a body as a scale matrix.
SizeScale(b) ==
    Mat4_scale(<<b.size.v[1], b.size.d>>, <<b.size.v[2], b.size.d>>, <<b.size.v[3], b.size.d>>)

\* The last call was X.blend_state(alpha), and it returned.
Blended(X, alpha) ==
    outcome.op = "blend_state" /\ outcome.self = X /\ outcome.alpha = alpha /\ ~outcome.thrown

\* Mat4.translation(...c) for a vector c
TranslationTo(c) == Mat4_translation(<<c.v[1], c.d>>, <<c.v[2], c.d>>, <<c.v[3], c.d>>)

\* C18: for a body placed with the matrix M, center c, and then advanced
\* once by 1, blend_state(0) gives drawn_location = M * scale(size), whose
\* translation is c, and blend_state(1) gives a drawn_location whose
\* translation is c + linear_velocity and which is the advanced placement,
\* M turned by angular_velocity about spin_axis and moved to
\* c + linear_velocity, times scale(size).
C18_InterpolationEndpoints ==
    \A X \in Moved :
        (life[X].is = "advanced" /\ life[X].advances = 1) =>
            \E b \in {BodyOf(X)}, M \in {life[X].placed} :
            \E c \in {translation_of(M)} :
                /\ Blended(X, <<0, 1>>) =>
                       /\ translation_of(b.drawn_location) = c
                       /\ b.drawn_location = times(M, SizeScale(b))
                /\ Blended(X, <<1, 1>>) =>
                       /\ translation_of(b.drawn_location) = vec_plus(c, b.linear_velocity)
                       /\ b.drawn_location =
                              times(times(TranslationTo(vec_plus(c, b.linear_velocity)),
                                          times(Mat4_rotation(b.angular_velocity,
                                                              b.spin_axis.v[1], b.spin_axis.v[2],
                                                              b.spin_axis.v[3]),
                                                times(TranslationTo(vec_times(c, <<-1, 1>>)), M))),
                                    SizeScale(b))

\* A body of size (1, 2, 1) that moves and turns, placed and advanced once,
\* has just been blended at 1.
C18_Witness ==
    /\ life["A"].is = "advanced" /\ life["A"].advances = 1
    /\ Blended("A", <<1, 1>>)
    /\ bodyA.size = vec3(1, 2, 1)
    /\ bodyA.angular_velocity = 1
    /\ bodyA.linear_velocity = vec3(0, -3, 0)
    /\ bodyA.center # translation_of(life["A"].placed)

\* C19: a call of advance, blend_state or check_if_colliding on a body on
\* which emplace was never called ends in an error.
C19_NeverPlacedFails ==
    (outcome.op \in {"advance", "blend_state", "check_if_colliding"}
        /\ outcome.was = "constructed")
    => outcome.thrown

\* C20: a body placed with the matrix M and not advanced since has
\* previous.center = center, the translation of M, and previous.rotation =
\* rotation, so blend_state(alpha) gives a drawn_location whose translation
\* is that center for every alpha (of a blend_state that was called, and of
\* blend_state applied to the body emplace returns), whether the body was
\* placed for the first time or again after it had advanced; previous holds copies: after
\* the first advance it still holds the center and rotation the body was
\* placed with.
C20_PlacedAtRest ==
    \A X \in {"A", "B"} :
        \E b \in {BodyOf(X)}, M \in {life[X].placed} :
            /\ life[X].is = "placed" =>
                   /\ b.previous.center = b.center
                   /\ b.previous.rotation = b.rotation
                   /\ b.center = translation_of(M)
                   /\ \A alpha \in Alphas :
                          /\ Blended(X, alpha) =>
                                 translation_of(b.drawn_location) = translation_of(M)
                          /\ (outcome.op = "emplace" /\ outcome.self = X) =>
                                 translation_of(blend_state(b, alpha).drawn_location)
                                     = translation_of(M)
            /\ (life[X].is = "advanced" /\ life[X].advances = 1) =>
                   /\ b.previous.center = translation_of(M)
                   /\ b.previous.rotation
                          = times(TranslationTo(vec_times(translation_of(M), <<-1, 1>>)), M)

\* emplace has just been called again on a body that had advanced and moved
\* away from where it was first placed.
C20_Witness ==
    /\ outcome.op = "emplace" /\ outcome.self = "A" /\ outcome.was = "advanced"
    /\ life["A"].is = "placed"
    /\ bodyA.previous.center = bodyA.center
    /\ bodyA.angular_velocity = 1
    /\ translation_of(bodyA.drawn_location) = bodyA.center

\* The arguments of the last emplace of X.
PlacedWith(X) == CHOOSE e \in Emplacements : e.location_matrix = life[X].placed

\* The rotation of a body placed with M and advanced n times by 1.
RotationAfter(e, n) ==
    times(Mat4_rotation(n * e.angular_velocity, e.spin_axis.v[1], e.spin_axis.v[2],
                        e.spin_axis.v[3]),
          times(TranslationTo(vec_times(translation_of(e.location_matrix), <<-1, 1>>)),
                e.location_matrix))

\* The center of a body placed with M and advanced n times by 1.
CenterAfter(e, n) ==
    vec_plus(translation_of(e.location_matrix), vec_times(e.linear_velocity, <<n, 1>>))

\* C21: a body placed and advanced n >= 1 times by 1, whatever was called on
\* it since the last advance, has the center and rotation of n advances, as
\* previous the center and rotation of n - 1 advances, and the velocities,
\* spin axis and size it had before; and advance(dt) applied to the body an
\* advance has just returned saves that body's center and rotation, adds
\* linear_velocity * dt to the center and keeps velocities, spin axis and size.
C21_AdvanceEffect ==
    \A X \in Moved :
        life[X].is = "advanced" =>
            \E b \in {BodyOf(X)}, e \in {PlacedWith(X)}, n \in {life[X].advances} :
                /\ b.center = CenterAfter(e, n)
                /\ b.rotation = RotationAfter(e, n)
                /\ b.previous.center = CenterAfter(e, n - 1)
                /\ b.previous.rotation = RotationAfter(e, n - 1)
                /\ b.linear_velocity = e.linear_velocity
                /\ b.angular_velocity = e.angular_velocity
                /\ b.spin_axis = e.spin_axis
                /\ b.size \in Sizes
                /\ (outcome.op = "advance" /\ outcome.self = X) =>
                       \A dt \in 1..3 : \E r \in {advance(b, dt)} :
                           /\ r.previous = [center |-> b.center, rotation |-> b.rotation]
                           /\ r.center = vec_plus(b.center, vec_times(b.linear_velocity, <<dt, 1>>))
                           /\ r.linear_velocity = b.linear_velocity
                           /\ r.angular_velocity = b.angular_velocity
                           /\ r.spin_axis = b.spin_axis
                           /\ r.size = b.size

\* A body that moves and turns has just advanced for the second time.
C21_Witness ==
    /\ outcome.op = "advance" /\ outcome.self = "A" /\ ~outcome.thrown
    /\ life["A"].advances = 2
    /\ bodyA.angular_velocity = 1
    /\ bodyA.previous.center # bodyA.center
    /\ bodyA.previous.rotation # bodyA.rotation

-----------------------------------------------------------------------------
\* Claims about the point tests.

\* The coordinate i of p, and p . p, as fractions.
Coordinate(p, i) == <<p.v[i], p.d>>
Dot(p) ==
    QSum(QTimes(Coordinate(p, 1), Coordinate(p, 1)),
         QSum(QTimes(Coordinate(p, 2), Coordinate(p, 2)),
              QTimes(Coordinate(p, 3), Coordinate(p, 3))))

\* 1 + m, and -(1 + m).
OnePlus(m) == QSum(<<1, 1>>, m)
Minus(q) == <<-q[1], q[2]>>

\* C22: intersect_sphere(p, m) returns true exactly when p . p < 1 + m, so
\* false on the sphere p . p = 1 + m itself; intersect_cube(p, m) returns true
\* exactly when no coordinate of p is below -(1 + m) or above 1 + m, so true
\* for a point of the cube whose coordinate is 1 + m or -(1 + m).
C22_PointTests ==
    /\ outcome.op = "intersect_sphere" =>
           /\ outcome.result <=> QLess(Dot(outcome.point), OnePlus(outcome.margin))
           /\ Dot(outcome.point)[1] * OnePlus(outcome.margin)[2]
                  = OnePlus(outcome.margin)[1] * Dot(outcome.point)[2]
               => ~outcome.result
    /\ outcome.op = "intersect_cube" =>
           /\ outcome.result <=>
                  \A i \in 1..3 :
                      /\ ~QLess(Coordinate(outcome.point, i), Minus(OnePlus(outcome.margin)))
                      /\ ~QLess(OnePlus(outcome.margin), Coordinate(outcome.point, i))
           /\ (\A i \in 1..3 :
                   Coordinate(outcome.point, i) \in
                       {OnePlus(outcome.margin), Minus(OnePlus(outcome.margin))})
               => outcome.result

\* The sphere test was made with margin 1/2 on (1, 1/2, 1/2), where p . p is 3/2.
C22_Witness ==
    /\ outcome.op = "intersect_sphere"
    /\ outcome.margin = <<1, 2>>
    /\ outcome.point = Vec(<<2, 1, 1>>, 2)
    /\ ~outcome.result

====
